---- MODULE Spec2Model ----
(***************************************************************************)
(* qpipe orchestrator: session handshake, bounded blocking MPMC queue,     *)
(* producer / consumer workers, statistics counters and the frame codec.   *)
(* One session = one thread spawned by the control accept loop.            *)
(***************************************************************************)
EXTENDS Integers, Sequences, FiniteSets

\* ---------------------------------------------------------------- bounds
NumSessions == 3      \* control connections accepted during a run
Capacity == 2         \* SharedQueue.capacity (second CLI argument)
MaxFrames == 3        \* frames decoded by all producer workers together
MaxReject == 1        \* data connections rejected on ephemeral listeners

\* ------------------------------------------------------ program constants
ROLE_PRODUCER == 80
ROLE_CONSUMER == 67
TOKEN_LEN == 16
MAX_FRAME_SIZE == 16 * 1024 * 1024
LEN_PREFIX == 4

Sessions == 1..NumSessions
NoThread == 0

\* ------------------------------------------------------------ byte streams
\* What a socket read sees: the bytes that arrive, then how the stream ends.
Take(seq, n) == SubSeq(seq, 1, n)
Drop(seq, n) == SubSeq(seq, n + 1, Len(seq))

\* Read::read_exact on a stream that delivers `bytes` and then ends with `end`:
\* "eof", an io::ErrorKind, or "pending" (the peer is silent: the read blocks).
read_exact(stream, n) ==
    IF Len(stream.bytes) >= n
    THEN [ok |-> TRUE, err |-> "none", buf |-> Take(stream.bytes, n),
          rest |-> [stream EXCEPT !.bytes = Drop(stream.bytes, n)]]
    ELSE [ok |-> FALSE,
          err |-> IF stream.end = "eof" THEN "UnexpectedEof" ELSE stream.end,
          buf |-> <<>>, rest |-> [stream EXCEPT !.bytes = <<>>]]

from_be_bytes_le(b) == b[4] * 16777216 + b[3] * 65536 + b[2] * 256 + b[1]

\* u32::from_be_bytes
from_be_bytes(b) == b[1] * 16777216 + b[2] * 65536 + b[3] * 256 + b[4]

\* u32::to_be_bytes
to_be_bytes(n) ==
    << (n \div 16777216) % 256, (n \div 65536) % 256, (n \div 256) % 256, n % 256 >>

read_too_large_off(len) == len > MAX_FRAME_SIZE + 1

\* read_frame: if len > MAX_FRAME_SIZE
read_too_large(len) == len > MAX_FRAME_SIZE

\* read_frame: kind is "Some" (payload), "None" (Ok(None)) or "Err" (err);
\* rest is the stream after the call.
read_frame(stream) ==
    LET hdr == read_exact(stream, LEN_PREFIX) IN
    IF ~hdr.ok
    THEN IF hdr.err = "UnexpectedEof"
         THEN [kind |-> "None", err |-> "none", payload |-> <<>>, rest |-> hdr.rest]
         ELSE [kind |-> "Err", err |-> hdr.err, payload |-> <<>>, rest |-> hdr.rest]
    ELSE LET len == from_be_bytes(hdr.buf) IN
         IF read_too_large(len)
         THEN [kind |-> "Err", err |-> "InvalidData", payload |-> <<>>,
               rest |-> hdr.rest]
         ELSE LET body == read_exact(hdr.rest, len) IN
              IF body.ok
              THEN [kind |-> "Some", err |-> "none", payload |-> body.buf,
                    rest |-> body.rest]
              ELSE [kind |-> "Err", err |-> body.err, payload |-> <<>>,
                    rest |-> body.rest]

write_too_large_ge(len) == len >= MAX_FRAME_SIZE

\* write_frame: if payload.len() > MAX_FRAME_SIZE
write_too_large(len) == len > MAX_FRAME_SIZE

\* write_frame on a sink whose write_all calls end with `sock` ("Ok" or an
\* io::ErrorKind): the result and the bytes handed to the sink.
write_frame(sock, payload) ==
    IF write_too_large(Len(payload))
    THEN [res |-> "InvalidInput", wrote |-> <<>>]
    ELSE IF sock = "Ok"
         THEN [res |-> "Ok", wrote |-> to_be_bytes(Len(payload)) \o payload]
         ELSE [res |-> sock, wrote |-> <<>>]

\* Streams a producer connection can present to one read_frame call.
Eof(bytes) == [bytes |-> bytes, end |-> "eof"]
Reset(bytes) == [bytes |-> bytes, end |-> "ConnectionReset"]
NoStream == [bytes |-> <<>>, end |-> "none"]
ProducerStreams ==
    { Eof(<<>>),                      \* closed at a frame boundary
      Eof(<<0>>), Eof(<<0, 0, 0>>),   \* closed inside the length prefix
      Eof(<<0, 0, 0, 2, 7, 9>>),      \* a two-byte frame
      Eof(<<0, 0, 0, 2, 7>>),         \* closed inside the payload
      Eof(<<1, 0, 0, 1>>),            \* length MAX_FRAME_SIZE + 1
      Reset(<<>>) }                   \* connection reset

\* Outcomes of the socket writes of a consumer connection.
WriteOutcomes == {"Ok", "BrokenPipe", "ConnectionReset", "UnexpectedEof", "TimedOut"}

\* Session tokens: 16 random bytes, abstracted to their identity.  A draw yields
\* a value no other session holds (a collision has probability 2^-128).
Tokens == 1..NumSessions
NoToken == 0
SysRng(s) == s
\* What a data connection presents: n bytes, all of token `val` if n = TOKEN_LEN,
\* then silence until the read timeout or end of stream.
AuthAttempts ==
    [n : {0, TOKEN_LEN - 1, TOKEN_LEN}, val : Tokens, end : {"eof", "timeout"}]
NoAttempt == [n |-> 0, val |-> NoToken]

NoMsg == [id |-> <<0, 0>>, body |-> <<>>]

VARIABLES
    pc,          \* per session: position of its thread
    role,        \* per session: role byte read from the control socket (0: none)
    ctrl,        \* per session: control socket   "none" | "open" | "closed"
    listener,    \* per session: data_listener    "none" | "open" | "closed"
    token,       \* per session: issued token
    data,        \* per session: authenticated data socket "none" | "open" | "closed"
    result,      \* per session: return value of handle_control ("none" while running)
    msg,         \* per session: frame held by the worker (local `msg`)
    werr,        \* per session: error of the failed write_frame (local `e`)
    q,           \* SharedQueue.inner
    depth,       \* SharedQueue.depth
    mutex,       \* holder of SharedQueue.inner's lock, NoThread if free
    not_empty,   \* threads blocked in not_empty.wait
    not_full,    \* threads blocked in not_full.wait
    stats,       \* Stats
    got,         \* per session: bytes read from the authenticated data connection
    rejected,    \* history: data connections closed without authenticating
    lastIn,      \* history: stream on which a worker's last read_frame ended
    nread,       \* history: frames decoded, per session
    appended,    \* history: frame ids in the order push appended them
    popped,      \* history: frame ids in the order pop removed them
    out,         \* history: frame ids written to each consumer socket
    failed,      \* history: frame ids whose write_frame failed
    peer,        \* per session: the client's end of the data socket
                 \*   "any" (client not modelled) | "open" | "closed"
    wire,        \* per session: bytes the client sent that the worker has not read
    sent,        \* per session: Producer::send calls that have returned
    sink,        \* codec: bytes written to the stream by write_frame
    wrote,       \* codec: payloads of the write_frame calls that returned Ok
    wres,        \* codec: result of the last write_frame call
    wlen,        \* codec: payload length of the last write_frame call
    wcalls,      \* codec: write_frame calls made
    rd,          \* codec: what is left of the stream being read
    decoded      \* codec: results of the read_frame calls, in order

vars == << pc, role, ctrl, listener, token, data, result, msg, werr, q, depth,
           mutex, not_empty, not_full, stats, got, rejected, lastIn, nread,
           appended, popped, out, failed, peer, wire, sent,
           sink, wrote, wres, wlen, wcalls, rd, decoded >>

sessVars == << role, ctrl, listener, token, data, result, got, rejected >>
queueVars == << q, depth, mutex, not_empty, not_full >>
histVars == << lastIn, nread, appended, popped, out, failed >>
clientVars == << peer, wire, sent >>
codecVars == << sink, wrote, wres, wlen, wcalls, rd, decoded >>
orchVars == << pc, role, ctrl, listener, token, data, result, msg, werr, q, depth,
               mutex, not_empty, not_full, stats, got, rejected, lastIn, nread,
               appended, popped, out, failed >>

\* No codec call has been made.
CodecIdle ==
    /\ sink = <<>>
    /\ wrote = <<>>
    /\ wres = "none"
    /\ wlen = 0
    /\ wcalls = 0
    /\ rd = NoStream
    /\ decoded = <<>>

InitOrch ==
    /\ pc = [s \in Sessions |-> "idle"]
    /\ role = [s \in Sessions |-> 0]
    /\ ctrl = [s \in Sessions |-> "none"]
    /\ listener = [s \in Sessions |-> "none"]
    /\ token = [s \in Sessions |-> NoToken]
    /\ data = [s \in Sessions |-> "none"]
    /\ result = [s \in Sessions |-> "none"]
    /\ msg = [s \in Sessions |-> NoMsg]
    /\ werr = [s \in Sessions |-> "none"]
    /\ q = <<>>
    /\ depth = 0
    /\ mutex = NoThread
    /\ not_empty = {}
    /\ not_full = {}
    /\ stats = [posted_msgs |-> 0, posted_bytes |-> 0,
                collected_msgs |-> 0, collected_bytes |-> 0,
                dropped_msgs |-> 0, dropped_bytes |-> 0,
                active_producers |-> 0, active_consumers |-> 0]
    /\ got = [s \in Sessions |-> NoAttempt]
    /\ rejected = 0
    /\ lastIn = [s \in Sessions |-> NoStream]
    /\ nread = [s \in Sessions |-> 0]
    /\ appended = <<>>
    /\ popped = <<>>
    /\ out = [s \in Sessions |-> <<>>]
    /\ failed = {}

Init ==
    /\ InitOrch
    /\ peer = [s \in Sessions |-> "any"]
    /\ wire = [s \in Sessions |-> <<>>]
    /\ sent = [s \in Sessions |-> 0]
    /\ CodecIdle

\* ------------------------------------------------------- session handshake
\* handle_control returns r: its locals (ctrl, data_listener, data) are dropped.
Return(s, r) ==
    /\ pc' = [pc EXCEPT ![s] = "done"]
    /\ result' = [result EXCEPT ![s] = r]
    /\ ctrl' = [ctrl EXCEPT ![s] = IF @ = "open" THEN "closed" ELSE @]
    /\ listener' = [listener EXCEPT ![s] = IF @ = "open" THEN "closed" ELSE @]
    /\ data' = [data EXCEPT ![s] = IF @ = "open" THEN "closed" ELSE @]

accept_control_strict(s) ==
    /\ pc[s] = "idle"
    /\ \A t \in Sessions : t < s => (pc[t] # "idle" /\ result[t] \in {"none", "Ok"})
    /\ pc' = [pc EXCEPT ![s] = "AwaitRole"]
    /\ ctrl' = [ctrl EXCEPT ![s] = "open"]
    /\ UNCHANGED << role, listener, token, data, result, got, rejected, msg, werr,
                    stats >>
    /\ UNCHANGED queueVars
    /\ UNCHANGED histVars
    /\ UNCHANGED clientVars
    /\ UNCHANGED codecVars

\* main: listener.incoming() yields a control connection; a thread is spawned.
accept_control(s) ==
    /\ pc[s] = "idle"
    /\ \A t \in Sessions : t < s => pc[t] # "idle"
    /\ pc' = [pc EXCEPT ![s] = "AwaitRole"]
    /\ ctrl' = [ctrl EXCEPT ![s] = "open"]
    /\ UNCHANGED << role, listener, token, data, result, got, rejected, msg, werr,
                    stats >>
    /\ UNCHANGED queueVars
    /\ UNCHANGED histVars
    /\ UNCHANGED clientVars
    /\ UNCHANGED codecVars

RoleBytes == {ROLE_PRODUCER, ROLE_CONSUMER, 88}

role_ok_any(b) == TRUE

role_ok(b) == b = ROLE_PRODUCER \/ b = ROLE_CONSUMER

\* handle_control: read the role byte and validate it.
read_role(s) ==
    /\ pc[s] = "AwaitRole"
    /\ \/ \E b \in RoleBytes :
            /\ role' = [role EXCEPT ![s] = b]
            /\ IF role_ok(b)
               THEN /\ pc' = [pc EXCEPT ![s] = "BindEphemeral"]
                    /\ UNCHANGED << ctrl, listener, data, result >>
               ELSE Return(s, "InvalidData")
       \/ \* read_exact fails: the peer closed before sending a byte
          /\ Return(s, "UnexpectedEof")
          /\ UNCHANGED role
    /\ UNCHANGED << token, got, rejected, msg, werr, stats >>
    /\ UNCHANGED queueVars
    /\ UNCHANGED histVars
    /\ UNCHANGED clientVars
    /\ UNCHANGED codecVars

\* handle_control: local_addr, TcpListener::bind on port 0, local_addr.
bind_ephemeral(s) ==
    /\ pc[s] = "BindEphemeral"
    /\ \/ /\ listener' = [listener EXCEPT ![s] = "open"]
          /\ pc' = [pc EXCEPT ![s] = "IssueToken"]
          /\ UNCHANGED << ctrl, data, result >>
       \/ Return(s, "Other")
    /\ UNCHANGED << role, token, got, rejected, msg, werr, stats >>
    /\ UNCHANGED queueVars
    /\ UNCHANGED histVars
    /\ UNCHANGED clientVars
    /\ UNCHANGED codecVars

\* handle_control: draw the token, write port and token, flush, drop(ctrl).
issue_token(s) ==
    /\ pc[s] = "IssueToken"
    /\ \/ /\ token' = [token EXCEPT ![s] = SysRng(s)]
          /\ ctrl' = [ctrl EXCEPT ![s] = "closed"]
          /\ pc' = [pc EXCEPT ![s] = "AwaitData"]
          /\ UNCHANGED << listener, data, result >>
       \/ \* the random source or a write on the control socket fails
          /\ Return(s, "Other")
          /\ UNCHANGED token
    /\ UNCHANGED << role, got, rejected, msg, werr, stats >>
    /\ UNCHANGED queueVars
    /\ UNCHANGED histVars
    /\ UNCHANGED clientVars
    /\ UNCHANGED codecVars

token_ok_len(g, tk) == g.n = TOKEN_LEN

\* read_exact(&mut got) succeeded and got == token
token_ok(g, tk) == g.n = TOKEN_LEN /\ g.val = tk

\* handle_control: one turn of the accept loop on the ephemeral listener.
accept_data(s) ==
    /\ pc[s] = "AwaitData"
    /\ \/ \E g \in AuthAttempts :
            /\ IF token_ok(g, token[s])
               THEN /\ got' = [got EXCEPT ![s] = [n |-> g.n, val |-> g.val]]
                    /\ data' = [data EXCEPT ![s] = "open"]
                    /\ pc' = [pc EXCEPT ![s] = "RunWorker"]
                    /\ UNCHANGED rejected
               ELSE \* the socket and its buffer are dropped; the loop continues
                    /\ rejected < MaxReject
                    /\ rejected' = rejected + 1
                    /\ UNCHANGED << got, data, pc >>
            /\ UNCHANGED << ctrl, listener, result >>
       \/ \* data_listener.accept() fails
          /\ Return(s, "Other")
          /\ UNCHANGED << got, rejected >>
    /\ UNCHANGED << role, token, msg, werr, stats >>
    /\ UNCHANGED queueVars
    /\ UNCHANGED histVars
    /\ UNCHANGED clientVars
    /\ UNCHANGED codecVars

\* ------------------------------------------------------------- ConnGuard
\* ConnGuard::new: fetch_add on the gauge of `kind`.
ConnGuard_new(kind, st) ==
    IF kind = "Producer"
    THEN [st EXCEPT !.active_producers = @ + 1]
    ELSE [st EXCEPT !.active_consumers = @ + 1]

ConnGuard_drop_swapped(kind, st) ==
    IF kind = "Producer"
    THEN [st EXCEPT !.active_consumers = @ - 1]
    ELSE [st EXCEPT !.active_producers = @ - 1]

\* Drop for ConnGuard: fetch_sub on the gauge of `kind`.
ConnGuard_drop(kind, st) ==
    IF kind = "Producer"
    THEN [st EXCEPT !.active_producers = @ - 1]
    ELSE [st EXCEPT !.active_consumers = @ - 1]

\* handle_control: dispatch on the role; the worker creates its guard.
run_worker(s) ==
    /\ pc[s] = "RunWorker"
    /\ IF role[s] = ROLE_PRODUCER
       THEN /\ stats' = ConnGuard_new("Producer", stats)
            /\ pc' = [pc EXCEPT ![s] = "read_frame"]
       ELSE /\ stats' = ConnGuard_new("Consumer", stats)
            /\ pc' = [pc EXCEPT ![s] = "pop_lock"]
    /\ UNCHANGED << msg, werr >>
    /\ UNCHANGED sessVars
    /\ UNCHANGED queueVars
    /\ UNCHANGED histVars
    /\ UNCHANGED clientVars
    /\ UNCHANGED codecVars

\* ---------------------------------------------------------- run_producer
RECURSIVE SumTo(_, _)
SumTo(f, n) == IF n = 0 THEN 0 ELSE f[n] + SumTo(f, n - 1)
TotalRead == SumTo(nread, NumSessions)

msg_len_wire(m) == Len(m.body) + LEN_PREFIX

\* msg.len() as u64
msg_len(m) == Len(m.body)

\* What the data socket of session s presents to a read: anything when the
\* client is not modelled, else the buffered bytes and then end of stream if the
\* client has closed.
Incoming(s) ==
    IF peer[s] = "any" THEN ProducerStreams
    ELSE { [bytes |-> wire[s], end |-> IF peer[s] = "closed" THEN "eof" ELSE "pending"] }

\* run_producer: read_frame(stream)? and the match on its result.
producer_read(s) ==
    /\ pc[s] = "read_frame"
    /\ \E st \in Incoming(s) :
         LET r == read_frame(st) IN
         /\ ~(r.kind = "Err" /\ r.err = "pending")
         /\ wire' = [wire EXCEPT ![s] = IF peer[s] = "any" THEN @ ELSE r.rest.bytes]
         /\ IF r.kind = "Some"
            THEN /\ TotalRead < MaxFrames
                 /\ UNCHANGED lastIn
                 /\ nread' = [nread EXCEPT ![s] = @ + 1]
                 /\ msg' = [msg EXCEPT ![s] =
                              [id |-> << s, nread[s] + 1 >>, body |-> r.payload]]
                 /\ pc' = [pc EXCEPT ![s] = "push_lock"]
                 /\ UNCHANGED << ctrl, listener, data, result, stats >>
            ELSE /\ Return(s, IF r.kind = "None" THEN "Ok" ELSE r.err)
                 /\ stats' = ConnGuard_drop("Producer", stats)
                 /\ lastIn' = [lastIn EXCEPT ![s] = st]
                 /\ UNCHANGED << nread, msg >>
    /\ UNCHANGED << role, token, got, rejected, werr >>
    /\ UNCHANGED queueVars
    /\ UNCHANGED << appended, popped, out, failed >>
    /\ UNCHANGED << peer, sent >>
    /\ UNCHANGED codecVars

\* ----------------------------------------------------- SharedQueue::push
\* self.inner.lock(), also the re-acquisition when not_full.wait returns.
push_lock(s) ==
    /\ \/ pc[s] = "push_lock"
       \/ pc[s] = "push_wait" /\ s \notin not_full
    /\ mutex = NoThread
    /\ mutex' = s
    /\ pc' = [pc EXCEPT ![s] = "push_check"]
    /\ UNCHANGED << q, depth, not_empty, not_full, msg, werr, stats >>
    /\ UNCHANGED sessVars
    /\ UNCHANGED histVars
    /\ UNCHANGED clientVars
    /\ UNCHANGED codecVars

push_must_wait_gt(queue) == Len(queue) > Capacity

\* while q.len() >= self.capacity
push_must_wait(queue) == Len(queue) >= Capacity

push_check_drop(s) ==
    /\ pc[s] = "push_check"
    /\ mutex = s
    /\ IF push_must_wait(q)
       THEN /\ pc' = [pc EXCEPT ![s] = "push_notify"]
            /\ UNCHANGED << q, appended >>
       ELSE /\ q' = Append(q, msg[s])
            /\ appended' = Append(appended, msg[s].id)
            /\ pc' = [pc EXCEPT ![s] = "push_depth"]
    /\ UNCHANGED << mutex, not_full >>
    /\ UNCHANGED << depth, not_empty, msg, werr, stats >>
    /\ UNCHANGED sessVars
    /\ UNCHANGED << lastIn, nread, popped, out, failed >>
    /\ UNCHANGED clientVars
    /\ UNCHANGED codecVars

\* The loop test: not_full.wait(q) releases the lock, or q.push_back(msg).
push_check(s) ==
    /\ pc[s] = "push_check"
    /\ mutex = s
    /\ IF push_must_wait(q)
       THEN /\ not_full' = not_full \cup {s}
            /\ mutex' = NoThread
            /\ pc' = [pc EXCEPT ![s] = "push_wait"]
            /\ UNCHANGED << q, appended >>
       ELSE /\ q' = Append(q, msg[s])
            /\ appended' = Append(appended, msg[s].id)
            /\ pc' = [pc EXCEPT ![s] = "push_depth"]
            /\ UNCHANGED << mutex, not_full >>
    /\ UNCHANGED << depth, not_empty, msg, werr, stats >>
    /\ UNCHANGED sessVars
    /\ UNCHANGED << lastIn, nread, popped, out, failed >>
    /\ UNCHANGED clientVars
    /\ UNCHANGED codecVars

\* A condition-variable wait may return without a notification.
push_spurious(s) ==
    /\ pc[s] = "push_wait"
    /\ s \in not_full
    /\ not_full' = not_full \ {s}
    /\ UNCHANGED << pc, q, depth, mutex, not_empty, msg, werr, stats >>
    /\ UNCHANGED sessVars
    /\ UNCHANGED histVars
    /\ UNCHANGED clientVars
    /\ UNCHANGED codecVars

push_depth_skip(s) ==
    /\ pc[s] = "push_depth"
    /\ pc' = [pc EXCEPT ![s] = "push_notify"]
    /\ UNCHANGED << q, depth, mutex, not_empty, not_full, msg, werr, stats >>
    /\ UNCHANGED sessVars
    /\ UNCHANGED histVars
    /\ UNCHANGED clientVars
    /\ UNCHANGED codecVars

\* self.depth.fetch_add(1)
push_depth(s) ==
    /\ pc[s] = "push_depth"
    /\ depth' = depth + 1
    /\ pc' = [pc EXCEPT ![s] = "push_notify"]
    /\ UNCHANGED << q, mutex, not_empty, not_full, msg, werr, stats >>
    /\ UNCHANGED sessVars
    /\ UNCHANGED histVars
    /\ UNCHANGED clientVars
    /\ UNCHANGED codecVars

notify_one_lost(waiters, waiters2) == waiters2 = waiters

\* Condvar::notify_one: wakes one waiter if there is one.
notify_one(waiters, waiters2) ==
    IF waiters = {} THEN waiters2 = waiters
    ELSE \E w \in waiters : waiters2 = waiters \ {w}

push_notify_hold(s) ==
    /\ pc[s] = "push_notify"
    /\ notify_one(not_empty, not_empty')
    /\ pc' = [pc EXCEPT ![s] = "posted_msgs"]
    /\ UNCHANGED << q, depth, mutex, not_full, msg, werr, stats >>
    /\ UNCHANGED sessVars
    /\ UNCHANGED histVars
    /\ UNCHANGED clientVars
    /\ UNCHANGED codecVars

\* self.not_empty.notify_one(); the guard is dropped as push returns.
push_notify(s) ==
    /\ pc[s] = "push_notify"
    /\ notify_one(not_empty, not_empty')
    /\ mutex' = NoThread
    /\ pc' = [pc EXCEPT ![s] = "posted_msgs"]
    /\ UNCHANGED << q, depth, not_full, msg, werr, stats >>
    /\ UNCHANGED sessVars
    /\ UNCHANGED histVars
    /\ UNCHANGED clientVars
    /\ UNCHANGED codecVars

\* stats.posted_msgs.fetch_add(1)
count_posted_msgs(s) ==
    /\ pc[s] = "posted_msgs"
    /\ stats' = [stats EXCEPT !.posted_msgs = @ + 1]
    /\ pc' = [pc EXCEPT ![s] = "posted_bytes"]
    /\ UNCHANGED << msg, werr >>
    /\ UNCHANGED sessVars
    /\ UNCHANGED queueVars
    /\ UNCHANGED histVars
    /\ UNCHANGED clientVars
    /\ UNCHANGED codecVars

\* stats.posted_bytes.fetch_add(len); the loop goes round.
count_posted_bytes(s) ==
    /\ pc[s] = "posted_bytes"
    /\ stats' = [stats EXCEPT !.posted_bytes = @ + msg_len(msg[s])]
    /\ msg' = [msg EXCEPT ![s] = NoMsg]
    /\ pc' = [pc EXCEPT ![s] = "read_frame"]
    /\ UNCHANGED werr
    /\ UNCHANGED sessVars
    /\ UNCHANGED queueVars
    /\ UNCHANGED histVars
    /\ UNCHANGED clientVars
    /\ UNCHANGED codecVars

\* ------------------------------------------------------ SharedQueue::pop
\* self.inner.lock(), also the re-acquisition when not_empty.wait returns.
pop_lock(s) ==
    /\ \/ pc[s] = "pop_lock"
       \/ pc[s] = "pop_wait" /\ s \notin not_empty
    /\ mutex = NoThread
    /\ mutex' = s
    /\ pc' = [pc EXCEPT ![s] = "pop_check"]
    /\ UNCHANGED << q, depth, not_empty, not_full, msg, werr, stats >>
    /\ UNCHANGED sessVars
    /\ UNCHANGED histVars
    /\ UNCHANGED clientVars
    /\ UNCHANGED codecVars

pop_front_item_back(queue) == queue[Len(queue)]

\* q.pop_front(): the element returned
pop_front_item(queue) == Head(queue)

pop_front_rest_keep(queue) == queue

\* q.pop_front(): the container afterwards
pop_front_rest(queue) == Tail(queue)

\* The loop test: not_empty.wait(q) releases the lock, or q.pop_front().unwrap().
pop_check(s) ==
    /\ pc[s] = "pop_check"
    /\ mutex = s
    /\ IF q = <<>>
       THEN /\ not_empty' = not_empty \cup {s}
            /\ mutex' = NoThread
            /\ pc' = [pc EXCEPT ![s] = "pop_wait"]
            /\ UNCHANGED << q, msg, popped >>
       ELSE /\ msg' = [msg EXCEPT ![s] = pop_front_item(q)]
            /\ q' = pop_front_rest(q)
            /\ popped' = Append(popped, pop_front_item(q).id)
            /\ pc' = [pc EXCEPT ![s] = "pop_depth"]
            /\ UNCHANGED << mutex, not_empty >>
    /\ UNCHANGED << depth, not_full, werr, stats >>
    /\ UNCHANGED sessVars
    /\ UNCHANGED << lastIn, nread, appended, out, failed >>
    /\ UNCHANGED clientVars
    /\ UNCHANGED codecVars

\* A condition-variable wait may return without a notification.
pop_spurious(s) ==
    /\ pc[s] = "pop_wait"
    /\ s \in not_empty
    /\ not_empty' = not_empty \ {s}
    /\ UNCHANGED << pc, q, depth, mutex, not_full, msg, werr, stats >>
    /\ UNCHANGED sessVars
    /\ UNCHANGED histVars
    /\ UNCHANGED clientVars
    /\ UNCHANGED codecVars

\* self.depth.fetch_sub(1)
pop_depth(s) ==
    /\ pc[s] = "pop_depth"
    /\ depth' = depth - 1
    /\ pc' = [pc EXCEPT ![s] = "pop_notify"]
    /\ UNCHANGED << q, mutex, not_empty, not_full, msg, werr, stats >>
    /\ UNCHANGED sessVars
    /\ UNCHANGED histVars
    /\ UNCHANGED clientVars
    /\ UNCHANGED codecVars

\* self.not_full.notify_one(); the guard is dropped as pop returns msg.
pop_notify(s) ==
    /\ pc[s] = "pop_notify"
    /\ notify_one(not_full, not_full')
    /\ mutex' = NoThread
    /\ pc' = [pc EXCEPT ![s] = "write_frame"]
    /\ UNCHANGED << q, depth, not_empty, msg, werr, stats >>
    /\ UNCHANGED sessVars
    /\ UNCHANGED histVars
    /\ UNCHANGED clientVars
    /\ UNCHANGED codecVars

\* ---------------------------------------------------------- run_consumer
\* How a write on the data socket of session s can end: anything when the
\* client is not modelled; otherwise it succeeds while the client's end is open
\* and fails once the client has closed it.
SockWrite(s) ==
    IF peer[s] = "any" THEN WriteOutcomes
    ELSE IF peer[s] = "open" THEN {"Ok"}
    ELSE {"BrokenPipe", "ConnectionReset"}

\* write_frame(stream, &msg) and the match on its result.
consumer_write(s) ==
    /\ pc[s] = "write_frame"
    /\ \E o \in SockWrite(s) :
         LET w == write_frame(o, msg[s].body) IN
         IF w.res = "Ok"
         THEN /\ out' = [out EXCEPT ![s] = Append(@, msg[s].id)]
              /\ pc' = [pc EXCEPT ![s] = "collected_msgs"]
              /\ UNCHANGED << werr, failed >>
         ELSE /\ failed' = failed \cup {msg[s].id}
              /\ werr' = [werr EXCEPT ![s] = w.res]
              /\ pc' = [pc EXCEPT ![s] = "dropped_msgs"]
              /\ UNCHANGED out
    /\ UNCHANGED << msg, stats >>
    /\ UNCHANGED sessVars
    /\ UNCHANGED queueVars
    /\ UNCHANGED << lastIn, nread, appended, popped >>
    /\ UNCHANGED clientVars
    /\ UNCHANGED codecVars

\* stats.collected_msgs.fetch_add(1)
count_collected_msgs(s) ==
    /\ pc[s] = "collected_msgs"
    /\ stats' = [stats EXCEPT !.collected_msgs = @ + 1]
    /\ pc' = [pc EXCEPT ![s] = "collected_bytes"]
    /\ UNCHANGED << msg, werr >>
    /\ UNCHANGED sessVars
    /\ UNCHANGED queueVars
    /\ UNCHANGED histVars
    /\ UNCHANGED clientVars
    /\ UNCHANGED codecVars

\* stats.collected_bytes.fetch_add(len); stream.flush().ok(); the loop goes round.
count_collected_bytes(s) ==
    /\ pc[s] = "collected_bytes"
    /\ stats' = [stats EXCEPT !.collected_bytes = @ + msg_len(msg[s])]
    /\ msg' = [msg EXCEPT ![s] = NoMsg]
    /\ pc' = [pc EXCEPT ![s] = "pop_lock"]
    /\ UNCHANGED werr
    /\ UNCHANGED sessVars
    /\ UNCHANGED queueVars
    /\ UNCHANGED histVars
    /\ UNCHANGED clientVars
    /\ UNCHANGED codecVars

count_dropped_both(st) ==
    [st EXCEPT !.dropped_msgs = @ + 1, !.collected_msgs = @ + 1]

\* stats.dropped_msgs.fetch_add(1)
count_dropped(st) == [st EXCEPT !.dropped_msgs = @ + 1]

count_dropped_msgs(s) ==
    /\ pc[s] = "dropped_msgs"
    /\ stats' = count_dropped(stats)
    /\ pc' = [pc EXCEPT ![s] = "dropped_bytes"]
    /\ UNCHANGED << msg, werr >>
    /\ UNCHANGED sessVars
    /\ UNCHANGED queueVars
    /\ UNCHANGED histVars
    /\ UNCHANGED clientVars
    /\ UNCHANGED codecVars

\* stats.dropped_bytes.fetch_add(len)
count_dropped_bytes(s) ==
    /\ pc[s] = "dropped_bytes"
    /\ stats' = [stats EXCEPT !.dropped_bytes = @ + msg_len(msg[s])]
    /\ msg' = [msg EXCEPT ![s] = NoMsg]
    /\ pc' = [pc EXCEPT ![s] = "write_failed"]
    /\ UNCHANGED werr
    /\ UNCHANGED sessVars
    /\ UNCHANGED queueVars
    /\ UNCHANGED histVars
    /\ UNCHANGED clientVars
    /\ UNCHANGED codecVars

peer_gone_two(e) == e \in {"BrokenPipe", "ConnectionReset"}

\* matches!(e.kind(), BrokenPipe | ConnectionReset | UnexpectedEof)
peer_gone(e) == e \in {"BrokenPipe", "ConnectionReset", "UnexpectedEof"}

\* run_consumer: return Ok(()) or Err(e) after a failed write; the guard drops.
consumer_return(s) ==
    /\ pc[s] = "write_failed"
    /\ Return(s, IF peer_gone(werr[s]) THEN "Ok" ELSE werr[s])
    /\ stats' = ConnGuard_drop("Consumer", stats)
    /\ werr' = [werr EXCEPT ![s] = "none"]
    /\ UNCHANGED << role, token, got, rejected, msg >>
    /\ UNCHANGED queueVars
    /\ UNCHANGED histVars
    /\ UNCHANGED clientVars
    /\ UNCHANGED codecVars

\* ------------------------------------------------------------ the system
Next ==
    \/ \E s \in Sessions : accept_control(s)
    \/ \E s \in Sessions : read_role(s)
    \/ \E s \in Sessions : bind_ephemeral(s)
    \/ \E s \in Sessions : issue_token(s)
    \/ \E s \in Sessions : accept_data(s)
    \/ \E s \in Sessions : run_worker(s)
    \/ \E s \in Sessions : producer_read(s)
    \/ \E s \in Sessions : push_lock(s)
    \/ \E s \in Sessions : push_check(s)
    \/ \E s \in Sessions : push_spurious(s)
    \/ \E s \in Sessions : push_depth(s)
    \/ \E s \in Sessions : push_notify(s)
    \/ \E s \in Sessions : count_posted_msgs(s)
    \/ \E s \in Sessions : count_posted_bytes(s)
    \/ \E s \in Sessions : pop_lock(s)
    \/ \E s \in Sessions : pop_check(s)
    \/ \E s \in Sessions : pop_spurious(s)
    \/ \E s \in Sessions : pop_depth(s)
    \/ \E s \in Sessions : pop_notify(s)
    \/ \E s \in Sessions : consumer_write(s)
    \/ \E s \in Sessions : count_collected_msgs(s)
    \/ \E s \in Sessions : count_collected_bytes(s)
    \/ \E s \in Sessions : count_dropped_msgs(s)
    \/ \E s \in Sessions : count_dropped_bytes(s)
    \/ \E s \in Sessions : consumer_return(s)

Spec == Init /\ [][Next]_vars

\* ----------------------------------------------------- cooperating clients
\* A run with clients of the library: session 1 is a Producer, the others are
\* Consumers.  Each connects as Producer::connect / Consumer::connect do, the
\* producer sends up to MaxSend frames, and a client may drop its connection at
\* any time.  No socket operation fails while both ends are open.
MaxSend == 3          \* frames the producer client sends
SockBuf == 12         \* bytes the buffers of one data connection hold

ClientRole(s) == IF s = 1 THEN ROLE_PRODUCER ELSE ROLE_CONSUMER
ClientFrame == write_frame("Ok", <<7, 9>>).wrote

\* The handshake of session s with a client that follows the protocol.
client_connect(s) ==
    /\ \/ accept_control(s)
       \/ read_role(s)
       \/ bind_ephemeral(s)
       \/ issue_token(s)
       \/ accept_data(s)
    /\ result'[s] = "none"
    /\ rejected' = rejected
    /\ role'[s] \in {0, ClientRole(s)}

\* Producer::send: write_frame and flush on the TcpStream; the call returns
\* once the socket buffers have taken the frame and blocks while they are full.
client_send(s) ==
    /\ data[s] = "open"
    /\ peer[s] = "open"
    /\ role[s] = ROLE_PRODUCER
    /\ sent[s] < MaxSend
    /\ Len(wire[s]) + Len(ClientFrame) <= SockBuf
    /\ wire' = [wire EXCEPT ![s] = @ \o ClientFrame]
    /\ sent' = [sent EXCEPT ![s] = @ + 1]
    /\ UNCHANGED peer
    /\ UNCHANGED orchVars
    /\ UNCHANGED codecVars

\* The client drops its Producer / Consumer: its end of the data socket closes.
client_close(s) ==
    /\ data[s] = "open"
    /\ peer[s] = "open"
    /\ peer' = [peer EXCEPT ![s] = "closed"]
    /\ UNCHANGED << wire, sent >>
    /\ UNCHANGED orchVars
    /\ UNCHANGED codecVars

InitLive ==
    /\ InitOrch
    /\ peer = [s \in Sessions |-> "open"]
    /\ wire = [s \in Sessions |-> <<>>]
    /\ sent = [s \in Sessions |-> 0]
    /\ CodecIdle

NextLive ==
    \/ \E s \in Sessions : client_connect(s)
    \/ \E s \in Sessions : client_send(s)
    \/ \E s \in Sessions : client_close(s)
    \/ \E s \in Sessions : run_worker(s)
    \/ \E s \in Sessions : producer_read(s)
    \/ \E s \in Sessions : push_lock(s)
    \/ \E s \in Sessions : push_check(s)
    \/ \E s \in Sessions : push_spurious(s)
    \/ \E s \in Sessions : push_depth(s)
    \/ \E s \in Sessions : push_notify(s)
    \/ \E s \in Sessions : count_posted_msgs(s)
    \/ \E s \in Sessions : count_posted_bytes(s)
    \/ \E s \in Sessions : pop_lock(s)
    \/ \E s \in Sessions : pop_check(s)
    \/ \E s \in Sessions : pop_spurious(s)
    \/ \E s \in Sessions : pop_depth(s)
    \/ \E s \in Sessions : pop_notify(s)
    \/ \E s \in Sessions : consumer_write(s)
    \/ \E s \in Sessions : count_collected_msgs(s)
    \/ \E s \in Sessions : count_collected_bytes(s)
    \/ \E s \in Sessions : count_dropped_msgs(s)
    \/ \E s \in Sessions : count_dropped_bytes(s)
    \/ \E s \in Sessions : consumer_return(s)

\* A step of the thread of session s other than taking the queue's lock.
ThreadStep(s) ==
    \/ client_connect(s)
    \/ run_worker(s)
    \/ producer_read(s)
    \/ push_check(s)
    \/ push_depth(s)
    \/ push_notify(s)
    \/ count_posted_msgs(s)
    \/ count_posted_bytes(s)
    \/ pop_check(s)
    \/ pop_depth(s)
    \/ pop_notify(s)
    \/ consumer_write(s)
    \/ count_collected_msgs(s)
    \/ count_collected_bytes(s)
    \/ count_dropped_msgs(s)
    \/ count_dropped_bytes(s)
    \/ consumer_return(s)

\* Fair scheduling: a thread that can take a step takes one, and a thread that
\* is again and again able to take the lock gets it.  Spurious wake-ups and the
\* clients' sends and closes are under no obligation to happen.
Fairness ==
    \A s \in Sessions :
        /\ WF_vars(ThreadStep(s))
        /\ SF_vars(push_lock(s) \/ pop_lock(s))

SpecLive == InitLive /\ [][NextLive]_vars /\ Fairness

\* Weak fairness on threads only: a thread that can take a step for good takes
\* one.  Taking the lock is a step like any other, so a thread that finds the
\* lock held each time it is scheduled may wait for it for ever (the mutex of
\* the standard library hands the lock to whoever asks first).
WeakFairness ==
    \A s \in Sessions : WF_vars(ThreadStep(s) \/ push_lock(s) \/ pop_lock(s))
LockFairness ==
    \A s \in Sessions : SF_vars(push_lock(s) \/ pop_lock(s))

SpecWeak == InitLive /\ [][NextLive]_vars /\ WeakFairness

\* ------------------------------------------------------------ frame codec
\* write_frame and read_frame on one in-memory stream: up to MaxWrites calls of
\* write_frame, then the stream is closed and read_frame is called until it
\* returns None or an error.
MaxWrites == 3

CodecPayloads == { <<>>, <<7>>, <<7, 9>> }

Twice(h) == h \o h
RECURSIVE Zeros(_)
Zeros(n) ==
    IF n = 0 THEN <<>>
    ELSE IF n % 2 = 0 THEN Twice(Zeros(n \div 2))
    ELSE Append(Zeros(n - 1), 0)
\* The shortest payload write_frame refuses and the longest one it accepts.
Oversized == Zeros(MAX_FRAME_SIZE + 1)
AtCap == Zeros(MAX_FRAME_SIZE)

\* write_frame(&mut sink, payload).  A frame of MAX_FRAME_SIZE bytes ends its
\* stream.
codec_write(payload) ==
    /\ rd = NoStream
    /\ wcalls < MaxWrites
    /\ wlen # MAX_FRAME_SIZE
    /\ LET w == write_frame("Ok", payload) IN
         /\ sink' = sink \o w.wrote
         /\ wrote' = IF w.res = "Ok" THEN Append(wrote, payload) ELSE wrote
         /\ wres' = w.res
    /\ wlen' = Len(payload)
    /\ wcalls' = wcalls + 1
    /\ UNCHANGED << rd, decoded >>
    /\ UNCHANGED orchVars
    /\ UNCHANGED clientVars

\* read_frame(&mut stream) on the closed stream, until None or an error.
codec_read ==
    /\ \A i \in DOMAIN decoded : decoded[i].kind = "Some"
    /\ LET r == read_frame(IF rd = NoStream THEN Eof(sink) ELSE rd) IN
         /\ rd' = r.rest
         /\ decoded' = Append(decoded, [kind |-> r.kind, err |-> r.err,
                                        payload |-> r.payload])
    /\ UNCHANGED << sink, wrote, wres, wlen, wcalls >>
    /\ UNCHANGED orchVars
    /\ UNCHANGED clientVars

\* The frame of exactly MAX_FRAME_SIZE bytes is written to an empty stream,
\* right after the oversized payload was refused.
NextCodec ==
    \/ \E payload \in CodecPayloads : codec_write(payload)
    \/ codec_write(Oversized)
    \/ wrote = <<>> /\ wres = "InvalidInput" /\ codec_write(AtCap)
    \/ codec_read

SpecCodec == Init /\ [][NextCodec]_vars

\* ------------------------------------------------------------ vocabulary
ProducerPcs == {"read_frame", "push_lock", "push_check", "push_wait", "push_depth",
                "push_notify", "posted_msgs", "posted_bytes"}
ConsumerPcs == {"pop_lock", "pop_check", "pop_wait", "pop_depth", "pop_notify",
                "write_frame", "collected_msgs", "collected_bytes", "dropped_msgs",
                "dropped_bytes", "write_failed"}
InProducer(s) == pc[s] \in ProducerPcs
InConsumer(s) == pc[s] \in ConsumerPcs
InWorker(s) == InProducer(s) \/ InConsumer(s)

IsPrefix(a, b) == Len(a) <= Len(b) /\ \A i \in DOMAIN a : a[i] = b[i]

RECURSIVE QueuedBytes(_)
QueuedBytes(queue) ==
    IF queue = <<>> THEN 0 ELSE Len(Head(queue).body) + QueuedBytes(Tail(queue))

\* ----------------------------------------------------------------- claims

\* C1: at-most-once delivery.  A frame appended by one push is returned by at
\* most one pop, no frame is written to two consumer sockets (or twice to one),
\* and a frame whose write failed is neither queued again, nor held by another
\* consumer, nor written to any socket.
C1_AtMostOnce ==
    /\ \A i, j \in DOMAIN popped : popped[i] = popped[j] => i = j
    /\ \A s, t \in Sessions : \A i \in DOMAIN out[s] : \A j \in DOMAIN out[t] :
          out[s][i] = out[t][j] => (s = t /\ i = j)
    /\ \A id \in failed :
          /\ \A s \in Sessions : \A i \in DOMAIN out[s] : out[s][i] # id
          /\ \A k \in DOMAIN q : q[k].id # id
          /\ \A s \in Sessions : pc[s] = "write_frame" => msg[s].id # id

C1_Witness ==
    /\ failed # {}
    /\ \E s, t \in Sessions : s # t /\ out[s] # <<>> /\ out[t] # <<>>

\* C2: queue capacity bound.  In every state the container and the depth
\* counter lie in 0..Capacity; no step appends to a container that already
\* holds Capacity frames and no step removes from an empty one, also when a
\* waiter wakes without a notification.
C2_QueueCapacity ==
    /\ [](0 <= depth /\ depth <= Capacity /\ Len(q) <= Capacity)
    /\ [][/\ Len(q') > Len(q) => (Len(q) < Capacity /\ depth < Capacity)
          /\ Len(q') < Len(q) => (Len(q) > 0 /\ depth > 0)]_vars

\* A producer whose wait ended while the queue is still full.
C2_Witness ==
    \E s \in Sessions :
        /\ pc[s] = "push_wait" /\ s \notin not_full
        /\ Len(q) = Capacity /\ depth = Capacity

\* C3: FIFO.  Frames leave the queue in exactly the order the pushes appended
\* them, so the frames of one producer are popped in the order it read them.
C3_Fifo ==
    /\ IsPrefix(popped, appended)
    /\ \A i, j \in DOMAIN popped :
          (i < j /\ popped[i][1] = popped[j][1]) => popped[i][2] < popped[j][2]

C3_Witness ==
    /\ \E i, j \in DOMAIN popped : i < j /\ popped[i][1] = popped[j][1]
    /\ \E k \in DOMAIN appended : appended[k][1] # popped[1][1]

\* Producers whose push has incremented depth and which have not yet
\* incremented posted_msgs.
PostedLag ==
    Cardinality({s \in Sessions : pc[s] \in {"push_notify", "posted_msgs"}})

\* C4 as stated: posted_msgs >= collected_msgs + dropped_msgs + depth always.
C4_Original ==
    stats.posted_msgs >= stats.collected_msgs + stats.dropped_msgs + depth

\* C4 amended: posted_msgs plus the number of producer workers whose push has
\* incremented depth but which have not yet incremented posted_msgs is at least
\* collected_msgs + dropped_msgs + depth, in every state.
C4_Amended ==
    stats.posted_msgs + PostedLag
        >= stats.collected_msgs + stats.dropped_msgs + depth

C4_Witness ==
    /\ PostedLag > 0
    /\ stats.collected_msgs > 0
    /\ stats.posted_msgs < stats.collected_msgs + stats.dropped_msgs + depth

\* No worker between reading a frame and incrementing posted_msgs, and none
\* between pop and incrementing collected_msgs / dropped_msgs.
Quiescent ==
    \A s \in Sessions :
        pc[s] \notin {"push_lock", "push_check", "push_wait", "push_depth",
                      "push_notify", "posted_msgs",
                      "pop_depth", "pop_notify", "write_frame",
                      "collected_msgs", "dropped_msgs"}

\* ... and none between a message counter and its byte counter.
QuiescentBytes ==
    /\ Quiescent
    /\ \A s \in Sessions :
          pc[s] \notin {"posted_bytes", "collected_bytes", "dropped_bytes"}

MsgsConserved ==
    stats.posted_msgs = stats.collected_msgs + stats.dropped_msgs + depth
BytesConserved ==
    stats.posted_bytes
        = stats.collected_bytes + stats.dropped_bytes + QueuedBytes(q)

\* C5 as stated: both equalities hold whenever the message counters are quiescent.
C5_Original == Quiescent => (MsgsConserved /\ BytesConserved)

\* C5 amended: the message equality holds whenever no worker is between reading
\* a frame and posted_msgs or between pop and collected_msgs / dropped_msgs; the
\* byte equality holds when, in addition, no worker is between incrementing a
\* message counter and incrementing its byte counter.
C5_Amended ==
    /\ Quiescent => MsgsConserved
    /\ QuiescentBytes => BytesConserved

C5_Witness ==
    /\ QuiescentBytes
    /\ depth >= 1 /\ stats.collected_msgs >= 1 /\ stats.dropped_msgs >= 1

\* C6: while a session's worker loop runs, its ephemeral listener is not open.
C6_ListenerClosedInWorker ==
    \A s \in Sessions : InWorker(s) => listener[s] # "open"

\* C7: a producer worker returns success only when its stream ended with no
\* byte of a length prefix read; an end inside the prefix or the payload makes
\* it return an error.
C7_CleanEofOnlyAtBoundary ==
    \A s \in Sessions :
        (pc[s] = "done" /\ lastIn[s] # NoStream /\ result[s] = "Ok")
            => lastIn[s].bytes = <<>>

\* C8: token authentication.  A session holds a data socket (and runs a worker)
\* only if that connection presented TOKEN_LEN bytes equal to the session's
\* token; a connection that is rejected leaves every accepting session
\* accepting with its listener open; a worker is entered only from AwaitData,
\* and no session returns to the handshake once it has left it.
C8_TokenAuth ==
    /\ [](\A s \in Sessions :
            /\ (data[s] # "none") => (got[s].n = TOKEN_LEN /\ got[s].val = token[s])
            /\ (pc[s] = "RunWorker" \/ InWorker(s)) => data[s] = "open")
    /\ [][\A s \in Sessions :
            /\ (rejected' # rejected /\ pc[s] = "AwaitData")
                  => (pc'[s] = "AwaitData" /\ listener'[s] = "open"
                      /\ data'[s] = "none")
            /\ (pc'[s] = "RunWorker" /\ pc[s] # "RunWorker") => pc[s] = "AwaitData"
            /\ (pc[s] \notin {"idle", "AwaitRole"})
                  => pc'[s] \notin {"idle", "AwaitRole"}
            /\ (pc[s] = "RunWorker" \/ InWorker(s) \/ pc[s] = "done")
                  => pc'[s] \notin {"idle", "AwaitRole", "BindEphemeral",
                                    "IssueToken", "AwaitData"}
            /\ InWorker(s) => pc'[s] # "RunWorker"]_vars

\* One session only: it rejected a connection and then authenticated another.
C8_Witness ==
    \E s \in Sessions :
        /\ InWorker(s) /\ rejected > 0
        /\ \A t \in Sessions \ {s} : pc[t] = "idle"

\* C9: role rejection.  A session whose role byte is neither 'P' nor 'C' ends
\* with InvalidData, its control socket closed, no listener ever bound, no
\* token issued, no data socket and no worker; the rejecting step leaves the
\* statistics (the gauges included) unchanged.
C9_RoleRejection ==
    /\ [](\A s \in Sessions :
            (role[s] # 0 /\ role[s] \notin {ROLE_PRODUCER, ROLE_CONSUMER})
               => /\ pc[s] = "done" /\ result[s] = "InvalidData"
                  /\ ctrl[s] = "closed" /\ listener[s] = "none"
                  /\ token[s] = NoToken /\ data[s] = "none"
                  /\ nread[s] = 0 /\ out[s] = <<>>)
    /\ [][\A s \in Sessions :
            (pc[s] = "AwaitRole" /\ pc'[s] = "done") => stats' = stats]_vars

C9_Witness ==
    /\ \E s \in Sessions : role[s] = 88 /\ pc[s] = "done"
    /\ stats.active_producers > 0 /\ stats.active_consumers > 0

\* C10: connection gauges.  active_producers is the number of sessions inside
\* run_producer and active_consumers the number inside run_consumer, so neither
\* underflows and both are 0 once every worker has returned.
C10_Gauges ==
    /\ stats.active_producers
         = Cardinality({s \in Sessions : role[s] = ROLE_PRODUCER /\ InWorker(s)})
    /\ stats.active_consumers
         = Cardinality({s \in Sessions : role[s] = ROLE_CONSUMER /\ InWorker(s)})
    /\ \A s \in Sessions : InProducer(s) => role[s] = ROLE_PRODUCER
    /\ \A s \in Sessions : InConsumer(s) => role[s] = ROLE_CONSUMER

\* Every worker has returned: a producer by a read error, one consumer with
\* success after a failed write, another with the write's error.
C10_Witness ==
    /\ \A s \in Sessions : pc[s] = "done"
    /\ \E s \in Sessions : role[s] = ROLE_PRODUCER /\ result[s] = "InvalidData"
    /\ \E s \in Sessions : role[s] = ROLE_CONSUMER /\ result[s] = "Ok"
    /\ \E s \in Sessions : role[s] = ROLE_CONSUMER /\ result[s] = "TimedOut"

\* C14: drop accounting.  A failed write_frame changes neither the statistics
\* nor the queue; dropped_msgs then grows by exactly 1 and dropped_bytes by the
\* frame's length, nothing else is counted and nothing is re-queued; the worker
\* returns Ok for BrokenPipe, ConnectionReset and UnexpectedEof and the error
\* otherwise, and never pops again; dropped_msgs changes in no other step (never
\* on pop alone) and counts exactly the failed frames already accounted for.
C14_DropAccounting ==
    /\ [](/\ stats.dropped_msgs
               = Cardinality(failed)
                 - Cardinality({s \in Sessions : pc[s] = "dropped_msgs"})
          /\ \A id \in failed : \A k \in DOMAIN q : q[k].id # id)
    /\ [][\A s \in Sessions :
            /\ (pc[s] = "write_frame" /\ pc'[s] = "dropped_msgs")
                  => (stats' = stats /\ q' = q /\ depth' = depth
                      /\ msg[s].id \in failed')
            /\ (pc[s] = "dropped_msgs" /\ pc'[s] # pc[s])
                  => (/\ pc'[s] = "dropped_bytes"
                      /\ stats' = [stats EXCEPT !.dropped_msgs = @ + 1]
                      /\ q' = q /\ depth' = depth)
            /\ (pc[s] = "dropped_bytes" /\ pc'[s] # pc[s])
                  => (/\ pc'[s] = "write_failed"
                      /\ stats' = [stats EXCEPT
                                     !.dropped_bytes = @ + Len(msg[s].body)]
                      /\ q' = q /\ depth' = depth)
            /\ (pc[s] = "write_failed" /\ pc'[s] # pc[s])
                  => (/\ pc'[s] = "done"
                      /\ result'[s]
                           = IF werr[s] \in {"BrokenPipe", "ConnectionReset",
                                             "UnexpectedEof"}
                             THEN "Ok" ELSE werr[s]
                      /\ q' = q /\ depth' = depth)
            /\ (stats'.dropped_msgs # stats.dropped_msgs
                \/ stats'.dropped_bytes # stats.dropped_bytes)
                  => \E t \in Sessions :
                        pc[t] \in {"dropped_msgs", "dropped_bytes"} /\ pc'[t] # pc[t]]_vars

\* A consumer failed on one frame with UnexpectedEof and returned Ok; a frame
\* popped later was written to another consumer.
C14_Witness ==
    /\ stats.dropped_msgs = 1 /\ stats.dropped_bytes = 2
    /\ \E s \in Sessions :
          role[s] = ROLE_CONSUMER /\ pc[s] = "done" /\ result[s] = "Ok"
    /\ \E i, j \in DOMAIN popped :
          /\ i < j /\ popped[i] \in failed
          /\ \E t \in Sessions : \E k \in DOMAIN out[t] : out[t][k] = popped[j]

Oversize == Eof(<<1, 0, 0, 1>>)

\* C15: oversize inbound frame.  A producer worker whose read_frame meets a
\* length header above MAX_FRAME_SIZE returns InvalidData in that step, which
\* leaves the queue, depth and the posted counters unchanged and decrements
\* active_producers; the frame is never appended.
C15_OversizeFrame ==
    /\ [](\A s \in Sessions :
            lastIn[s] = Oversize => (pc[s] = "done" /\ result[s] = "InvalidData"))
    /\ [][\A s \in Sessions :
            (lastIn'[s] = Oversize /\ lastIn[s] # Oversize)
               => (/\ pc[s] = "read_frame"
                   /\ q' = q /\ depth' = depth /\ appended' = appended
                   /\ stats' = [stats EXCEPT !.active_producers = @ - 1])]_vars

C15_Witness ==
    \E s \in Sessions :
        /\ lastIn[s] = Oversize /\ nread[s] >= 1
        /\ stats.posted_msgs >= 1 /\ depth >= 1

\* Everything session t owns.
Locals(t) ==
    << pc[t], role[t], ctrl[t], listener[t], token[t], data[t], result[t],
       msg[t], werr[t], got[t], lastIn[t], nread[t], out[t] >>
LocalsNext(t) ==
    << pc'[t], role'[t], ctrl'[t], listener'[t], token'[t], data'[t], result'[t],
       msg'[t], werr'[t], got'[t], lastIn'[t], nread'[t], out'[t] >>
Counters(st) ==
    << st.posted_msgs, st.posted_bytes, st.collected_msgs, st.collected_bytes,
       st.dropped_msgs, st.dropped_bytes >>

\* C16: error isolation.  The step in which a session ends with an error
\* changes nothing any other session owns, neither the queue nor the posted /
\* collected / dropped counters; and whatever the earlier sessions returned,
\* the accept loop can accept the next control connection.
C16_ErrorIsolation ==
    /\ [](\A s \in Sessions :
            (pc[s] = "idle" /\ \A t \in Sessions : t < s => pc[t] # "idle")
               => ENABLED accept_control(s))
    /\ [][\A s \in Sessions :
            (pc'[s] = "done" /\ pc[s] # "done" /\ result'[s] # "Ok")
               => (/\ \A t \in Sessions \ {s} : LocalsNext(t) = Locals(t)
                   /\ q' = q /\ depth' = depth
                   /\ not_empty' = not_empty /\ not_full' = not_full
                   /\ Counters(stats') = Counters(stats))]_vars

\* A session was accepted and runs its worker after two earlier ones failed,
\* one in the handshake and one in its worker.
C16_Witness ==
    \E s, t, u \in Sessions :
        /\ s < u /\ t < u
        /\ result[s] = "InvalidData" /\ role[s] = 88
        /\ result[t] = "TimedOut"
        /\ InWorker(u)

\* Positions at which a thread is inside a socket call.
IoPcs == {"AwaitRole", "IssueToken", "AwaitData", "read_frame", "write_frame"}

\* C19: the queue mutex is held only inside push and pop: its holder is
\* between lock and return of one of them, never in a socket call.
C19_NoLockAcrossIo ==
    /\ mutex # NoThread
         => pc[mutex] \in {"push_check", "push_depth", "push_notify",
                           "pop_check", "pop_depth", "pop_notify"}
    /\ \A s \in Sessions : pc[s] \in IoPcs => mutex # s

\* One worker is in a socket write while another holds the mutex.
C19_Witness ==
    \E s, t \in Sessions : s # t /\ pc[s] = "write_frame" /\ mutex = t

\* C20: depth counter consistency.  With the mutex free the counter equals the
\* container's length; at any moment it is in 0..Capacity and equals the length
\* the container has now or had before the push or pop in progress; push_back
\* and fetch_add each add exactly 1, pop_front and fetch_sub each remove 1.
C20_DepthConsistent ==
    /\ [](/\ mutex = NoThread => depth = Len(q)
          /\ depth \in 0..Capacity
          /\ \/ depth = Len(q)
             \/ depth = Len(q) - 1 /\ mutex # NoThread /\ pc[mutex] = "push_depth"
             \/ depth = Len(q) + 1 /\ mutex # NoThread /\ pc[mutex] = "pop_depth")
    /\ [][/\ q' # q => (depth' = depth /\ Len(q') \in {Len(q) + 1, Len(q) - 1})
          /\ depth' # depth
               => (/\ q' = q
                   /\ \/ depth' = depth + 1 /\ pc[mutex] = "push_depth"
                      \/ depth' = depth - 1 /\ pc[mutex] = "pop_depth")]_vars

\* A pop has removed the head of a full queue and not yet decremented depth.
C20_Witness ==
    /\ mutex # NoThread /\ pc[mutex] = "pop_depth"
    /\ depth = Capacity /\ Len(q) = Capacity - 1

\* C11: connection record lifecycle.  Under fair scheduling, once the client of
\* a session has closed its data socket the session's worker returns (which
\* drops its guard and so decrements the gauge), whatever the queue holds.
C11_Lifecycle ==
    \A s \in Sessions : (peer[s] = "closed") ~> (pc[s] = "done")

\* C12: backpressure scenario.
ConsumerAppeared ==
    \E c \in Sessions : ClientRole(c) = ROLE_CONSUMER /\ pc[c] # "idle"

\* C12 as stated: the producer client's send number Capacity + 1 has not
\* returned as long as no consumer has appeared.
C12_Original ==
    sent[1] > Capacity => ConsumerAppeared

\* C12 amended: what waits for a consumer is the worker's push, not the
\* client's send.  While no frame has been popped at most Capacity frames are
\* appended and counted as posted; a send blocks only while the socket buffers
\* are full; and once a frame has been popped, the push of frame Capacity + 1
\* completes.
C12_Amended ==
    /\ [](popped = <<>> =>
            (Len(appended) <= Capacity /\ stats.posted_msgs <= Capacity))
    /\ [](\A s \in Sessions : Len(wire[s]) <= SockBuf)
    /\ (nread[1] > Capacity /\ popped # <<>>) ~> (Len(appended) > Capacity)

C12_Witness ==
    /\ sent[1] = Capacity + 1
    /\ ~ConsumerAppeared
    /\ pc[1] = "push_wait"
    /\ popped = <<>>
    /\ Len(appended) = Capacity

\* C13: exactly-once delivery without failures.
Receipts(f) ==
    { ci \in Sessions \X (1..MaxFrames) :
        ci[2] \in DOMAIN out[ci[1]] /\ out[ci[1]][ci[2]] = f }
ConsumerClosed ==
    \E c \in Sessions : ClientRole(c) = ROLE_CONSUMER /\ peer[c] = "closed"

\* Every frame the clients have sent so far has been written to exactly one
\* consumer.
AllDelivered ==
    \A s \in Sessions : \A k \in 1..MaxSend :
        k <= sent[s] => Cardinality(Receipts(<< s, k >>)) = 1

\* Every frame written to a consumer is a frame a producer client sent and is
\* written once, to one consumer; and under fair scheduling, as long as every
\* consumer keeps its socket open, every frame sent is eventually written to
\* exactly one consumer (sends being finite, and receipts permanent, this is:
\* again and again all frames sent so far have been delivered).
C13_ExactlyOnce ==
    /\ [](\A s \in Sessions : \A k \in 1..MaxFrames :
            /\ Cardinality(Receipts(<< s, k >>)) <= 1
            /\ Receipts(<< s, k >>) # {} => k <= sent[s])
    /\ []<>(ConsumerClosed \/ AllDelivered)

C13_Witness ==
    /\ ~ConsumerClosed
    /\ sent[1] = MaxSend
    /\ \A k \in 1..MaxSend : Cardinality(Receipts(<< 1, k >>)) = 1
    /\ out[2] # <<>>
    /\ out[3] # <<>>

\* C17: frame round trip.  The i-th read_frame on the closed stream returns
\* Some of the i-th payload written, for every payload written (the empty one,
\* the one of MAX_FRAME_SIZE bytes), and the read after the last one returns
\* None; nothing else is ever returned.
C17_RoundTrip ==
    \A i \in DOMAIN decoded :
        IF i <= Len(wrote)
        THEN decoded[i] = [kind |-> "Some", err |-> "none", payload |-> wrote[i]]
        ELSE i = Len(wrote) + 1 /\ decoded[i].kind = "None"

C17_Witness ==
    /\ Len(wrote) = 3
    /\ wrote[1] = <<>>
    /\ wrote[2] = <<7, 9>>
    /\ Len(decoded) = 4
    /\ decoded[4].kind = "None"

\* C18: length cap on write.  A write_frame call with a payload longer than
\* MAX_FRAME_SIZE returns InvalidInput and leaves the sink as it was; a call
\* with any other payload returns Ok and appends to the sink exactly four bytes
\* whose big-endian value is the payload length, followed by the payload.
C18_WriteCap ==
    [][wcalls' # wcalls =>
        IF wlen' > MAX_FRAME_SIZE
        THEN /\ wres' = "InvalidInput"
             /\ sink' = sink
             /\ wrote' = wrote
        ELSE /\ wres' = "Ok"
             /\ Len(wrote') = Len(wrote) + 1
             /\ Len(wrote'[Len(wrote')]) = wlen'
             /\ Len(sink') = Len(sink) + LEN_PREFIX + wlen'
             /\ Take(sink', Len(sink)) = sink
             /\ LET hdr == SubSeq(sink', Len(sink) + 1, Len(sink) + LEN_PREFIX) IN
                  /\ \A k \in 1..LEN_PREFIX : hdr[k] \in 0..255
                  /\ hdr[1] * 16777216 + hdr[2] * 65536 + hdr[3] * 256 + hdr[4] = wlen'
             /\ Drop(sink', Len(sink) + LEN_PREFIX) = wrote'[Len(wrote')]
    ]_vars

C18_Witness ==
    /\ wres = "InvalidInput"
    /\ wlen = MAX_FRAME_SIZE + 1
    /\ sink = <<0, 0, 0, 2, 7, 9>>

\* C21: no lost wake-ups.
PopStarved == \E s \in Sessions : pc[s] = "pop_wait" /\ q # <<>>
PushStarved == \E s \in Sessions : pc[s] = "push_wait" /\ Len(q) < Capacity

\* C21 as stated: under weak fairness on threads no pop stays blocked in
\* not_empty.wait while the queue holds a frame and no push stays blocked in
\* not_full.wait while the queue has room: again and again, every thread in
\* not_empty.wait sees an empty queue and every thread in not_full.wait a full
\* one (a blocked pop returns unless another consumer takes the frame, a
\* blocked push unless another producer takes the slot).
C21_Original == []<>(~PopStarved /\ ~PushStarved)

\* C21 amended: the same, for the behaviours in which, besides, a thread that
\* is again and again able to take the queue's lock gets it.
C21_Amended == LockFairness => []<>(~PopStarved /\ ~PushStarved)

C21_Witness ==
    /\ \E c \in Sessions : pc[c] = "pop_wait" /\ c \notin not_empty
    /\ \E p \in Sessions : pc[p] = "push_wait" /\ p \notin not_full
    /\ Len(q) = 1
    /\ not_empty = {}
    /\ Len(popped) = 1

====
